---- MODULE Spec2Model ----
(***************************************************************************)
(* Model of tablefinder (src/src/lib.rs): the reduce helper, the           *)
(* normalisation and scoring of SimpleAssessor::with_dict with its         *)
(* debug-build dictionary assertions, and the Assessment aggregator        *)
(* (for_headers, header_rows_iter).                                        *)
(*                                                                         *)
(* Strings are sequences of one-character strings.  A predicate on chars   *)
(* (the `criteria` closures) is the set of characters it accepts.          *)
(***************************************************************************)
EXTENDS Integers, Sequences, FiniteSets, TLC

VARIABLES
    \* ---- reduce(value, criteria, with), called twice in a row
    r_value, r_criteria, r_with, r_out, r_again, r_pc,
    \* ---- SimpleAssessor::with_dict
    self, debug, value, dict, stage1, norm, max, pc,
    \* ---- Assessment::for_headers / Assessment::header_rows_iter
    column_set, rows, taken, calls, yielded, direct, a_pc

redVars == <<r_value, r_criteria, r_with, r_out, r_again, r_pc>>
wdVars  == <<self, debug, value, dict, stage1, norm, max, pc>>
aggVars == <<column_set, rows, taken, calls, yielded, direct, a_pc>>
vars    == <<redVars, wdVars, aggVars>>

(***************************************************************************)
(* Bounds of the model.                                                    *)
(***************************************************************************)
MaxLen == 3        \* longest enumerated input string
MaxEntryLen == 2   \* longest enumerated dictionary entry
MaxDict == 2       \* most dictionary entries
MaxKinds == 2      \* most column kinds
MaxHeaders == 2    \* most headers in a row
MaxRows == 2       \* most rows in the row source

(***************************************************************************)
(* Characters.  The classes follow char::is_alphabetic, char::is_lowercase *)
(* and char::is_digit(_, 10) on the characters the model uses.             *)
(***************************************************************************)
Upper == {"A", "J", "S"}
Lower == {"a", "b", "h", "i", "j", "m", "n", "o", "s", "t"}
is_alphabetic == Upper \cup Lower
is_lowercase == Lower
is_digit10 == {"0", "1", "2"}
Other == {" "}
Chars == is_alphabetic \cup is_digit10 \cup Other

\* The characters strings are enumerated over.
InputChars == {"A", "a", "0", "1", " "}

StrOver(chars, n) == UNION {[1..k -> chars] : k \in 0..n}

Min2(a, b) == IF a < b THEN a ELSE b
Max2(a, b) == IF a < b THEN b ELSE a

(***************************************************************************)
(* fn reduce(value, criteria, with) -> String                              *)
(***************************************************************************)
RECURSIVE reduce_loop(_, _, _, _, _, _)
reduce_loop(v, criteria, with, i, result, last_was) ==
    IF i > Len(v) THEN result
    ELSE LET c == v[i] IN
         IF c \in criteria
         THEN IF ~last_was
              THEN reduce_loop(v, criteria, with, i + 1, Append(result, with), TRUE)
              ELSE reduce_loop(v, criteria, with, i + 1, result, last_was)
         ELSE reduce_loop(v, criteria, with, i + 1, Append(result, c), FALSE)

\* A reduce whose skip branch clears last_was, so a run is only halved.
RECURSIVE reduce_halving(_, _, _, _, _, _)
reduce_halving(v, criteria, with, i, result, last_was) ==
    IF i > Len(v) THEN result
    ELSE LET c == v[i] IN
         IF c \in criteria
         THEN IF ~last_was
              THEN reduce_halving(v, criteria, with, i + 1, Append(result, with), TRUE)
              ELSE reduce_halving(v, criteria, with, i + 1, result, FALSE)
         ELSE reduce_halving(v, criteria, with, i + 1, Append(result, c), FALSE)

reduce_mut_halving(v, criteria, with) == reduce_halving(v, criteria, with, 1, <<>>, FALSE)

\* A reduce that starts with last_was set, so a leading run is dropped.
reduce_mut_lead(v, criteria, with) == reduce_loop(v, criteria, with, 1, <<>>, TRUE)

reduce(v, criteria, with) == reduce_loop(v, criteria, with, 1, <<>>, FALSE)

(***************************************************************************)
(* str::to_lowercase, on the characters of the model (none of them changes *)
(* the length of the string).                                              *)
(***************************************************************************)
lower_char(c) ==
    CASE c = "A" -> "a"
      [] c = "J" -> "j"
      [] c = "S" -> "s"
      [] OTHER -> c

to_lowercase(v) == [i \in 1..Len(v) |-> lower_char(v[i])]

(***************************************************************************)
(* with_dict, first `let value`: the alphabetic stage.                     *)
(***************************************************************************)
\* An alphabetic stage that tests is_case_sensitive before is_alpha_reduced.
alpha_stage_mut(s, v) ==
    IF s.is_case_sensitive THEN v
    ELSE IF s.is_alpha_reduced THEN reduce(v, is_alphabetic, "a")
    ELSE to_lowercase(v)

alpha_stage(s, v) ==
    IF s.is_alpha_reduced THEN reduce(v, is_alphabetic, "a")
    ELSE IF s.is_case_sensitive THEN v
    ELSE to_lowercase(v)

(***************************************************************************)
(* with_dict, second `let value`: the numeric stage.                       *)
(***************************************************************************)
zero_digits(v) == [i \in 1..Len(v) |-> IF v[i] \in is_digit10 THEN "0" ELSE v[i]]

numeric_stage(s, v) ==
    IF s.is_number_reduced THEN reduce(v, is_digit10, "0")
    ELSE IF s.is_digit_sensitive THEN zero_digits(v)
    ELSE v

(***************************************************************************)
(* assert_reduction(value, criteria): TRUE when no assertion fails.        *)
(***************************************************************************)
RECURSIVE assert_reduction_loop(_, _, _, _)
assert_reduction_loop(v, criteria, i, last_was) ==
    IF i > Len(v) THEN TRUE
    ELSE IF v[i] \in criteria
         THEN IF last_was THEN FALSE
              ELSE assert_reduction_loop(v, criteria, i + 1, TRUE)
         ELSE assert_reduction_loop(v, criteria, i + 1, FALSE)

assert_reduction(v, criteria) == assert_reduction_loop(v, criteria, 1, FALSE)

(***************************************************************************)
(* The assertions with_dict makes on a dictionary entry when               *)
(* cfg!(debug_assertions): TRUE when all of them pass.                     *)
(***************************************************************************)
variant_asserts_pass(s, variant) ==
    /\ IF s.is_alpha_reduced THEN assert_reduction(variant, is_alphabetic)
       ELSE IF s.is_case_sensitive
            THEN \A i \in 1..Len(variant) : variant[i] \in is_lowercase
            ELSE TRUE
    /\ IF s.is_number_reduced THEN assert_reduction(variant, is_digit10)
       ELSE IF s.is_digit_sensitive
            THEN \A i \in 1..Len(variant) :
                     variant[i] = "0" \/ variant[i] \notin is_digit10
            ELSE TRUE

(***************************************************************************)
(* strsim::jaro.  A score is kept exactly, as the integer ScoreOne times   *)
(* the rational the floating-point expression rounds: 1.0 is ScoreOne and  *)
(* 0.0 is 0.  ScoreUnit is divisible by every length up to 10.             *)
(***************************************************************************)
ScoreUnit == 2 * 2 * 2 * 3 * 3 * 5 * 7
ScoreOne == 3 * ScoreUnit

\* The flags after the matching pass, from the i-th character of a on.
RECURSIVE jaro_match(_, _, _, _, _, _)
jaro_match(a, b, range, i, a_flags, b_flags) ==
    IF i > Len(a) THEN <<a_flags, b_flags>>
    ELSE LET lo == Max2(1, i - range)
             hi == Min2(Len(b), i + range)
             hits == {j \in lo..hi : b[j] = a[i] /\ j \notin b_flags}
         IN IF hits = {}
            THEN jaro_match(a, b, range, i + 1, a_flags, b_flags)
            ELSE LET j == CHOOSE k \in hits : \A h \in hits : k <= h
                 IN jaro_match(a, b, range, i + 1, a_flags \cup {i}, b_flags \cup {j})

\* The flagged characters of s, in order.
RECURSIVE flagged(_, _, _)
flagged(s, flags, i) ==
    IF i > Len(s) THEN <<>>
    ELSE IF i \in flags THEN <<s[i]>> \o flagged(s, flags, i + 1)
         ELSE flagged(s, flags, i + 1)

jaro(a, b) ==
    IF Len(a) = 0 /\ Len(b) = 0 THEN ScoreOne
    ELSE IF Len(a) = 0 \/ Len(b) = 0 THEN 0
    ELSE LET half == Max2(Len(a), Len(b)) \div 2
             range == IF half = 0 THEN 0 ELSE half - 1
             fl == jaro_match(a, b, range, 1, {}, {})
             matches == Cardinality(fl[1])
             ma == flagged(a, fl[1], 1)
             mb == flagged(b, fl[2], 1)
             transpositions ==
                 Cardinality({k \in 1..matches : ma[k] # mb[k]}) \div 2
         IN IF matches = 0 THEN 0
            ELSE ((ScoreUnit * matches) \div Len(a))
                 + ((ScoreUnit * matches) \div Len(b))
                 + ((ScoreUnit * (matches - transpositions)) \div matches)

(***************************************************************************)
(* with_dict, `if max < similarity { max = similarity; }`.                 *)
(***************************************************************************)
\* An update that keeps the latest similarity.
update_max_mut(m, similarity) == similarity

update_max(m, similarity) == IF m < similarity THEN similarity ELSE m

(***************************************************************************)
(* with_dict, `let mut max = 0.0;`.                                        *)
(***************************************************************************)
\* A scan that starts from the top score.
max_init_mut == ScoreOne

max_init == 0

(***************************************************************************)
(* Specification of reduce: an input is drawn, reduce is applied, and then *)
(* applied again to its own output.                                        *)
(***************************************************************************)
Criteria == SUBSET InputChars

IdleWd ==
    /\ self = [is_case_sensitive |-> FALSE, is_digit_sensitive |-> FALSE,
               is_number_reduced |-> TRUE, is_alpha_reduced |-> FALSE]
    /\ debug = TRUE
    /\ value = <<>>
    /\ dict = <<>>
    /\ stage1 = <<>>
    /\ norm = <<>>
    /\ max = max_init
    /\ pc = "idle"

IdleAgg ==
    /\ column_set = <<>>
    /\ rows = <<>>
    /\ taken = 0
    /\ calls = <<>>
    /\ yielded = <<>>
    /\ direct = [headers |-> <<>>, matrix |-> <<>>]
    /\ a_pc = "idle"

IdleRed ==
    /\ r_value = <<>>
    /\ r_criteria = {}
    /\ r_with = "a"
    /\ r_out = <<>>
    /\ r_again = <<>>
    /\ r_pc = "idle"

InitReduce ==
    /\ r_value \in StrOver(InputChars, MaxLen)
    /\ r_criteria \in Criteria
    /\ r_with \in InputChars
    /\ r_out = <<>>
    /\ r_again = <<>>
    /\ r_pc = "start"
    /\ IdleWd
    /\ IdleAgg

CallReduce ==
    /\ r_pc = "start"
    /\ r_out' = reduce(r_value, r_criteria, r_with)
    /\ r_pc' = "reduced"
    /\ UNCHANGED <<r_value, r_criteria, r_with, r_again, wdVars, aggVars>>

CallReduceAgain ==
    /\ r_pc = "reduced"
    /\ r_again' = reduce(r_out, r_criteria, r_with)
    /\ r_pc' = "twice"
    /\ UNCHANGED <<r_value, r_criteria, r_with, r_out, wdVars, aggVars>>

NextReduce == CallReduce \/ CallReduceAgain

SpecReduce == InitReduce /\ [][NextReduce]_vars

(***************************************************************************)
(* SimpleAssessor::with_dict.  The call is followed through its two        *)
(* normalisation stages and then through the `for variant in dict` loop:   *)
(* the dictionary is an iterator, so each iteration pulls one more entry;  *)
(* dict holds the entries pulled so far and is the whole dictionary once   *)
(* the iterator is exhausted.  debug is cfg!(debug_assertions).            *)
(***************************************************************************)
Assessors ==
    [is_case_sensitive : BOOLEAN, is_digit_sensitive : BOOLEAN,
     is_number_reduced : BOOLEAN, is_alpha_reduced : BOOLEAN]

\* impl Default for SimpleAssessor
DefaultAssessor ==
    [is_case_sensitive |-> FALSE, is_digit_sensitive |-> FALSE,
     is_number_reduced |-> TRUE, is_alpha_reduced |-> FALSE]

A1b22 == <<"A", "1", "b", "2", "2">>
JohnSmith == <<"J", "o", "h", "n", " ", "S", "m", "i", "t", "h">>

Values == StrOver(InputChars, MaxLen) \cup {A1b22, JohnSmith}

\* The characters and strings of the dictionaries with several entries.
DictChars == {"a", "1"}
DictEntries == StrOver(DictChars, MaxEntryLen)

InitWithDict(values) ==
    /\ self \in Assessors
    /\ debug \in BOOLEAN
    /\ value \in values
    /\ dict = <<>>
    /\ stage1 = <<>>
    /\ norm = <<>>
    /\ max = max_init
    /\ pc = "start"
    /\ IdleRed
    /\ IdleAgg

AlphaStep ==
    /\ pc = "start"
    /\ stage1' = alpha_stage(self, value)
    /\ pc' = "alpha_done"
    /\ UNCHANGED <<self, debug, value, dict, norm, max, redVars, aggVars>>

NumericStep ==
    /\ pc = "alpha_done"
    /\ norm' = numeric_stage(self, stage1)
    /\ max' = max_init
    /\ pc' = "loop"
    /\ UNCHANGED <<self, debug, value, dict, stage1, redVars, aggVars>>

\* The iterator yields `variant` and one of the debug assertions fails.
VariantRejected(variant) ==
    /\ pc = "loop"
    /\ Len(dict) < MaxDict
    /\ debug
    /\ ~variant_asserts_pass(self, variant)
    /\ dict' = Append(dict, variant)
    /\ pc' = "aborted"
    /\ UNCHANGED <<self, debug, value, stage1, norm, max, redVars, aggVars>>

\* The iterator yields `variant`, which is scored.
VariantScored(variant) ==
    /\ pc = "loop"
    /\ Len(dict) < MaxDict
    /\ debug => variant_asserts_pass(self, variant)
    /\ dict' = Append(dict, variant)
    /\ max' = update_max(max, jaro(norm, variant))
    /\ UNCHANGED <<self, debug, value, stage1, norm, pc, redVars, aggVars>>

\* The iterator is exhausted and with_dict returns max.
DictExhausted ==
    /\ pc = "loop"
    /\ pc' = "returned"
    /\ UNCHANGED <<self, debug, value, dict, stage1, norm, max, redVars, aggVars>>

\* The candidate is matched against a dictionary that repeats the candidate.
Init == InitWithDict(Values)

Next ==
    \/ AlphaStep
    \/ NumericStep
    \/ VariantRejected(value)
    \/ VariantScored(value)
    \/ DictExhausted

Spec == Init /\ [][Next]_vars

\* The candidate is matched against a dictionary of any entries.
InitDict == InitWithDict(DictEntries)

NextDict ==
    \/ AlphaStep
    \/ NumericStep
    \/ \E variant \in DictEntries : VariantRejected(variant)
    \/ \E variant \in DictEntries : VariantScored(variant)
    \/ DictExhausted

SpecDict == InitDict /\ [][NextDict]_vars

(***************************************************************************)
(* trait ColumnKind: the kinds are supplied by the caller.  A kind is an   *)
(* identifier and the score it gives a header is kept as the term          *)
(* <<kind, header>>, so scores of different calls never coincide.          *)
(***************************************************************************)
KindIds == {"MemberId", "Ssn"}
HeaderStrs == {"SSN", ""}

assess_header(kind, header) == <<kind, header>>

(***************************************************************************)
(* Assessment::for_headers: headers.enumerate().map(..).collect(), with    *)
(* the inner `for kind in column_set` push loop.                           *)
(***************************************************************************)
RECURSIVE for_kinds(_, _, _, _, _)
for_kinds(cs, header, position, j, vec) ==
    IF j > Len(cs) THEN vec
    ELSE for_kinds(cs, header, position, j + 1,
                   Append(vec, [similarity |-> assess_header(cs[j], header),
                                position |-> position]))

RECURSIVE for_headers_from(_, _, _, _)
for_headers_from(cs, headers, i, out) ==
    IF i > Len(headers) THEN out
    ELSE for_headers_from(cs, headers, i + 1,
                          Append(out, for_kinds(cs, headers[i], i - 1, 1, <<>>)))

\* A for_headers that numbers the headers from one.
for_headers_mut(cs, headers) ==
    [i \in 1..Len(headers) |-> for_kinds(cs, headers[i], i, 1, <<>>)]

for_headers(cs, headers) == for_headers_from(cs, headers, 1, <<>>)

\* The assess_header calls for_headers makes for row number n of the
\* source, in the order it makes them.
RECURSIVE assess_calls(_, _, _, _, _)
assess_calls(cs, headers, n, i, j) ==
    IF i > Len(headers) THEN <<>>
    ELSE IF j > Len(cs) THEN assess_calls(cs, headers, n, i + 1, 1)
    ELSE <<[row |-> n, kind |-> cs[j], header |-> headers[i]]>>
             \o assess_calls(cs, headers, n, i, j + 1)

(***************************************************************************)
(* Assessment::header_rows_iter returns rows.map(closure): building the    *)
(* adapter takes no row from the source.                                   *)
(***************************************************************************)
\* An adapter that drains the row source when it is built.
rows_taken_on_build_mut(rs) == Len(rs)

rows_taken_on_build(rs) == 0

RECURSIVE calls_upto(_, _, _)
calls_upto(cs, rs, n) ==
    IF n = 0 THEN <<>>
    ELSE calls_upto(cs, rs, n - 1) \o assess_calls(cs, rs[n], n, 1, 1)

(***************************************************************************)
(* Specification of the aggregator: a caller holds column kinds and a row  *)
(* source; it either calls for_headers on one row, or builds the           *)
(* header_rows_iter iterator, pulls from it and stops when it likes.       *)
(* taken counts the rows the source has handed out, calls logs the         *)
(* assess_header calls made, yielded the matrices the iterator produced.   *)
(***************************************************************************)
SeqsUpTo(S, n) == UNION {[1..k -> S] : k \in 0..n}
HeaderRows == SeqsUpTo(HeaderStrs, MaxHeaders)

InitAgg ==
    /\ column_set \in SeqsUpTo(KindIds, MaxKinds)
    /\ rows \in SeqsUpTo(HeaderRows, MaxRows)
    /\ taken = 0
    /\ calls = <<>>
    /\ yielded = <<>>
    /\ direct = [headers |-> <<>>, matrix |-> <<>>]
    /\ a_pc = "start"
    /\ IdleRed
    /\ IdleWd

CallForHeaders ==
    /\ a_pc = "start"
    /\ \E r \in 1..Len(rows) :
          direct' = [headers |-> rows[r],
                     matrix |-> for_headers(column_set, rows[r])]
    /\ a_pc' = "direct"
    /\ UNCHANGED <<column_set, rows, taken, calls, yielded, redVars, wdVars>>

HeaderRowsIter ==
    /\ a_pc = "start"
    /\ taken' = rows_taken_on_build(rows)
    /\ calls' = calls_upto(column_set, rows, rows_taken_on_build(rows))
    /\ a_pc' = "iterating"
    /\ UNCHANGED <<column_set, rows, yielded, direct, redVars, wdVars>>

\* Iterator::next on the adapter: one row is taken and mapped.
Pull ==
    /\ a_pc = "iterating"
    /\ taken < Len(rows)
    /\ taken' = taken + 1
    /\ yielded' = Append(yielded, for_headers(column_set, rows[taken + 1]))
    /\ calls' = calls \o assess_calls(column_set, rows[taken + 1], taken + 1, 1, 1)
    /\ UNCHANGED <<column_set, rows, direct, a_pc, redVars, wdVars>>

\* Iterator::next when the source has no more rows: None.
PullNone ==
    /\ a_pc = "iterating"
    /\ taken = Len(rows)
    /\ a_pc' = "exhausted"
    /\ UNCHANGED <<column_set, rows, taken, calls, yielded, direct, redVars, wdVars>>

\* The consumer stops pulling and drops the iterator.
StopEarly ==
    /\ a_pc = "iterating"
    /\ a_pc' = "dropped"
    /\ UNCHANGED <<column_set, rows, taken, calls, yielded, direct, redVars, wdVars>>

NextAgg == CallForHeaders \/ HeaderRowsIter \/ Pull \/ PullNone \/ StopEarly

SpecAgg == InitAgg /\ [][NextAgg]_vars

(***************************************************************************)
(* C4: for_headers gives one inner sequence per header and, in each, one   *)
(* cell per column kind, both in input order: cell [i][j] (0-based) has    *)
(* position i and the similarity kind j gives header i.                    *)
(***************************************************************************)
MatrixOf(cs, headers, m) ==
    /\ Len(m) = Len(headers)
    /\ \A i \in 1..Len(headers) :
          /\ Len(m[i]) = Len(cs)
          /\ \A j \in 1..Len(cs) :
                /\ m[i][j].position = i - 1
                /\ m[i][j].similarity = assess_header(cs[j], headers[i])

ForHeadersMatrix ==
    a_pc = "direct" => MatrixOf(column_set, direct.headers, direct.matrix)

\* Two different headers were assessed against two different kinds.
ForHeadersWitness ==
    /\ a_pc = "direct"
    /\ Len(direct.headers) = 2
    /\ direct.headers[1] # direct.headers[2]
    /\ Len(column_set) = 2
    /\ column_set[1] # column_set[2]
    /\ direct.matrix[2][1].position = 1

(***************************************************************************)
(* C5: header_rows_iter is pull-based: building it calls assess_header not *)
(* at all; the n-th pull takes the n-th row from the source and yields     *)
(* for_headers of it; after k pulls the source has handed out k rows and   *)
(* assess_header was called for the headers of those rows only.            *)
(***************************************************************************)
RECURSIVE CellsUpTo(_, _, _)
CellsUpTo(cs, rs, n) ==
    IF n = 0 THEN 0 ELSE CellsUpTo(cs, rs, n - 1) + Len(rs[n]) * Len(cs)

PullBased ==
    a_pc \in {"iterating", "exhausted", "dropped"} =>
        /\ taken = Len(yielded)
        /\ \A n \in 1..Len(yielded) : MatrixOf(column_set, rows[n], yielded[n])
        /\ \A c \in 1..Len(calls) : calls[c].row <= Len(yielded)
        /\ Len(calls) = CellsUpTo(column_set, rows, Len(yielded))
        /\ yielded = <<>> => calls = <<>>

\* The consumer stopped after one pull with a second row left in the source.
PullBasedWitness ==
    /\ a_pc = "dropped"
    /\ Len(yielded) = 1
    /\ Len(rows) = 2
    /\ Len(rows[2]) > 0
    /\ Len(column_set) > 0
    /\ Len(calls) > 0
    /\ taken = 1

(***************************************************************************)
(* What the claims say of the normalisation, stated without the loop of    *)
(* reduce: the k-th character of a collapsed string comes from the input   *)
(* character that is the k-th among the non-matching characters and the    *)
(* first characters of the runs.                                           *)
(***************************************************************************)
RunStart(v, p, i) == v[i] \in p /\ (i = 1 \/ v[i - 1] \notin p)
Kept(v, p, i) == v[i] \notin p \/ RunStart(v, p, i)
OutPos(v, p, i) == Cardinality({k \in 1..i : Kept(v, p, k)})
Collapsed(v, p, r) ==
    [k \in 1..OutPos(v, p, Len(v)) |->
        LET i == CHOOSE j \in 1..Len(v) : Kept(v, p, j) /\ OutPos(v, p, j) = k
        IN IF v[i] \in p THEN r ELSE v[i]]

ClaimedAlpha(s, v) ==
    IF s.is_alpha_reduced THEN Collapsed(v, is_alphabetic, "a")
    ELSE IF ~s.is_case_sensitive THEN [i \in 1..Len(v) |-> lower_char(v[i])]
    ELSE v

ClaimedNumeric(s, v) ==
    IF s.is_number_reduced THEN Collapsed(v, is_digit10, "0")
    ELSE IF ~s.is_digit_sensitive
         THEN [i \in 1..Len(v) |-> IF v[i] \in is_digit10 THEN "0" ELSE v[i]]
    ELSE v

AlphaDone == pc \in {"alpha_done", "loop", "returned", "aborted"}
NumericDone == pc \in {"loop", "returned", "aborted"}

\* The canonical form of x under s: what the two stages make of it.
Normalized(s, x) == numeric_stage(s, alpha_stage(s, x))

(***************************************************************************)
(* C1: the numeric stage collapses every digit run to one '0' when         *)
(* number_reduced; otherwise it replaces each digit by '0' when            *)
(* digit_sensitive is false and leaves the string alone when               *)
(* digit_sensitive is true.                                                *)
(***************************************************************************)
NumericStageAsClaimed == NumericDone => norm = ClaimedNumeric(self, stage1)

(***************************************************************************)
(* C2: a candidate that is already in canonical form, matched against the  *)
(* dictionary holding just that candidate, scores 1.0 and never aborts,    *)
(* debug builds included.                                                  *)
(***************************************************************************)
CanonicalSelfMatch ==
    (NumericDone /\ norm = value /\ dict = <<value>>) =>
        /\ pc # "aborted"
        /\ pc = "returned" => max = ScoreOne

(***************************************************************************)
(* C3: in a debug build with_dict aborts at every dictionary entry that    *)
(* the normalisation of the configuration would change, and returns no     *)
(* score computed against such an entry.                                   *)
(***************************************************************************)
NonCanonicalEntryAborts ==
    \A i \in 1..Len(dict) :
        (debug /\ Normalized(self, dict[i]) # dict[i]) =>
            (pc = "aborted" /\ i = Len(dict))

(***************************************************************************)
(* C6: with an empty dictionary with_dict returns 0.0, for every candidate *)
(* and every configuration, and does not abort in either build mode.       *)
(***************************************************************************)
EmptyDictScoresZero ==
    /\ (pc = "returned" /\ dict = <<>>) => max = 0
    /\ dict = <<>> => pc # "aborted"

\* A non-empty candidate was scored against the empty dictionary.
EmptyDictWitness ==
    /\ pc = "returned"
    /\ dict = <<>>
    /\ debug
    /\ Len(norm) > 0
    /\ max = 0

(***************************************************************************)
(* C8: the alphabetic stage runs first, on the raw candidate: it collapses *)
(* every run of letters to one 'a' when alpha_reduced, whatever            *)
(* case_sensitive is; otherwise it lowercases the string when              *)
(* case_sensitive is false and leaves it alone when it is true.  The       *)
(* numeric stage works on its output.  "John Smith" with alpha_reduced     *)
(* becomes "a a" and "A1b22" under the default configuration "a0b0".       *)
(***************************************************************************)
AlphaStageAsClaimed ==
    /\ AlphaDone => stage1 = ClaimedAlpha(self, value)
    /\ pc = "alpha_done" => norm = <<>>
    /\ (NumericDone /\ self.is_number_reduced) =>
           norm = Collapsed(ClaimedAlpha(self, value), is_digit10, "0")
    /\ (NumericDone /\ value = JohnSmith
          /\ self = [DefaultAssessor EXCEPT !.is_alpha_reduced = TRUE]) =>
           norm = <<"a", " ", "a">>
    /\ (NumericDone /\ value = A1b22 /\ self = DefaultAssessor) =>
           norm = <<"a", "0", "b", "0">>

\* A mixed-case run of letters was collapsed although case_sensitive is set.
AlphaStageWitness ==
    /\ NumericDone
    /\ self.is_alpha_reduced
    /\ self.is_case_sensitive
    /\ value = <<"A", "a", "1">>
    /\ stage1 = <<"a", "1">>

(***************************************************************************)
(* C7: the outcome of with_dict depends on the entries of the dictionary   *)
(* only, not on their order: the score returned is the largest similarity  *)
(* between the normalised candidate and an entry (0.0 when there is none), *)
(* and a debug build aborts exactly when some entry fails an assertion.    *)
(***************************************************************************)
SetMax(S) == CHOOSE x \in S : \A y \in S : y <= x
Similarities == {jaro(norm, dict[i]) : i \in 1..Len(dict)}
SomeEntryFails == \E i \in 1..Len(dict) : ~variant_asserts_pass(self, dict[i])

OrderIndependent ==
    /\ pc = "returned" =>
          /\ max = SetMax(Similarities \cup {0})
          /\ ~(debug /\ SomeEntryFails)
    /\ pc = "aborted" => (debug /\ SomeEntryFails)

\* The first of two entries is the better match, and the score is its.
OrderIndependentWitness ==
    /\ pc = "returned"
    /\ debug
    /\ Len(dict) = 2
    /\ jaro(norm, dict[1]) > jaro(norm, dict[2])
    /\ jaro(norm, dict[2]) > 0
    /\ max = jaro(norm, dict[1])

(***************************************************************************)
(* C9: reduce is idempotent: reducing the output of reduce again, with the *)
(* same predicate and replacement, gives the same string back.             *)
(***************************************************************************)
ReduceIdempotent == r_pc = "twice" => r_again = r_out

\* A run of at least two matching characters was reduced twice, with a
\* replacement that itself satisfies the predicate.
ReduceIdempotentWitness ==
    /\ r_pc = "twice"
    /\ r_with \in r_criteria
    /\ \E i \in 1..(Len(r_value) - 1) :
          r_value[i] \in r_criteria /\ r_value[i + 1] \in r_criteria
    /\ Len(r_out) < Len(r_value)

(***************************************************************************)
(* C10: the output of reduce has no two adjacent characters that satisfy   *)
(* the predicate; every non-matching character of the input is copied      *)
(* through in order and every maximal run of matching characters gives     *)
(* exactly one replacement character at the run's position.                *)
(***************************************************************************)
NoAdjacentRun ==
    r_pc \in {"reduced", "twice"} =>
        /\ \A i \in 1..(Len(r_out) - 1) :
              ~(r_out[i] \in r_criteria /\ r_out[i + 1] \in r_criteria)
        /\ Len(r_out) = OutPos(r_value, r_criteria, Len(r_value))
        /\ \A i \in 1..Len(r_value) :
              r_out[OutPos(r_value, r_criteria, i)] =
                  IF r_value[i] \in r_criteria THEN r_with ELSE r_value[i]

\* Two runs separated by a non-matching character were reduced.
NoAdjacentRunWitness ==
    /\ r_pc = "reduced"
    /\ Len(r_value) = 3
    /\ r_value[1] \in r_criteria
    /\ r_value[2] \notin r_criteria
    /\ r_value[3] \in r_criteria
    /\ r_with \in r_criteria
    /\ r_out = <<r_with, r_value[2], r_with>>

====
